---- MODULE Spec2Model ----
(***************************************************************************)
(* Model of remote-playbook: src/connect.rs (tilde_with_context,           *)
(* get_client) and src/prelude.rs (osinfo, which, some_output,             *)
(* file_exists, run, silent, Status).                                      *)
(*                                                                         *)
(* Strings the code slices, trims, searches or formats are sequences of    *)
(* one-character strings; strings the code only compares or passes on are  *)
(* TLA+ strings.  Option<T> is None or Some(v); Result<T> is Ok(v) or      *)
(* Err(msg).                                                               *)
(***************************************************************************)
EXTENDS Integers, Sequences, FiniteSets, TLC

VARIABLES
    \* get_client (connect.rs)
    args, cfg, home, pc, password, method, fsReads, connects, handshake, result,
    \* tilde_with_context (connect.rs)
    input, home_dir, expanded,
    \* run / silent / probes (prelude.rs)
    call, exec, ret,
    \* Status (prelude.rs)
    success, failure, status, printed

connVars == <<args, cfg, home, pc, password, method, fsReads, connects, handshake, result>>
tildeVars == <<input, home_dir, expanded>>
runVars == <<call, exec, ret>>
statusVars == <<success, failure, status, printed>>
vars == <<connVars, tildeVars, runVars, statusVars>>

----------------------------------------------------------------------------
(* Option and Result *)

None == [tag |-> "None"]
Some(v) == [tag |-> "Some", val |-> v]
Ok(v) == [tag |-> "Ok", val |-> v]
Err(m) == [tag |-> "Err", msg |-> m]

unwrap_or(opt, default) == IF opt.tag = "Some" THEN opt.val ELSE default

----------------------------------------------------------------------------
(* Bounds *)

\* longest path handed to tilde_with_context on its own
MaxLen == 3
\* most fragments a remote command's output is made of
MaxFrags == 3
\* most labels in a success or fail list
MaxList == 2

----------------------------------------------------------------------------
(* str helpers *)

RECURSIVE SeqsUpTo(_, _)
SeqsUpTo(S, n) ==
    IF n = 0 THEN {<<>>}
    ELSE LET shorter == SeqsUpTo(S, n - 1)
         IN  shorter \cup {Append(s, x) : s \in {t \in shorter : Len(t) = n - 1}, x \in S}

RECURSIVE Flatten(_)
Flatten(ss) == IF ss = <<>> THEN <<>> ELSE Head(ss) \o Flatten(Tail(ss))

starts_with(s, pat) == Len(s) >= Len(pat) /\ SubSeq(s, 1, Len(pat)) = pat

contains(s, pat) == \E i \in 1..(Len(s) - Len(pat) + 1) : SubSeq(s, i, i + Len(pat) - 1) = pat

is_whitespace(c) == c \in {" ", "\n", "\t", "\r"}

RECURSIVE trim_start(_)
trim_start(s) ==
    IF s # <<>> /\ is_whitespace(Head(s)) THEN trim_start(Tail(s)) ELSE s

RECURSIVE trim_end(_)
trim_end(s) ==
    IF s # <<>> /\ is_whitespace(s[Len(s)]) THEN trim_end(SubSeq(s, 1, Len(s) - 1)) ELSE s

trim(s) == trim_end(trim_start(s))

\* str::replace for a non-empty pattern: the non-overlapping matches, found
\* left to right in the original string, are each replaced
RECURSIVE replace(_, _, _)
replace(s, from, to) ==
    IF s = <<>> THEN <<>>
    ELSE IF starts_with(s, from)
         THEN to \o replace(SubSeq(s, Len(from) + 1, Len(s)), from, to)
         ELSE <<Head(s)>> \o replace(Tail(s), from, to)

----------------------------------------------------------------------------
(* connect.rs: tilde_with_context *)

tilde_with_context_moved_slash(input_str, hd) ==
    IF starts_with(input_str, <<"~">>)
    THEN LET input_after_tilde == SubSeq(input_str, 2, Len(input_str))
         IN  IF hd.tag = "Some" THEN hd.val \o input_after_tilde ELSE input_str
    ELSE input_str

\* hd is what the home_dir closure yields (its display form), or None
tilde_with_context(input_str, hd) ==
    IF starts_with(input_str, <<"~">>)
    THEN LET input_after_tilde == SubSeq(input_str, 2, Len(input_str))
         IN  IF input_after_tilde = <<>> \/ starts_with(input_after_tilde, <<"/">>)
             THEN IF hd.tag = "Some"
                  THEN hd.val \o input_after_tilde
                  ELSE input_str
             ELSE input_str
    ELSE input_str

----------------------------------------------------------------------------
(* connect.rs: get_client *)

NoPrivateKeyMsg ==
    <<"n", "o", " ", "p", "r", "i", "v", "a", "t", "e", " ", "k", "e", "y", " ",
      "f", "i", "l", "e", " ", "p", "r", "o", "v", "i", "d", "e", "d">>

InvalidPrivateKeyPrefix ==
    <<"i", "n", "v", "a", "l", "i", "d", " ", "p", "r", "i", "v", "a", "t", "e", " ",
      "k", "e", "y", " ">>

\* format!("invalid private key {}", path_key)
InvalidPrivateKeyMsg(path_key) == InvalidPrivateKeyPrefix \o path_key

DefaultPort == 22

\* the invocation arguments (an Ssh value, every field optional)
ArgsSet ==
    [remote_password : {None, Some(""), Some("argpw")},
     remote_key_file : {None, Some(<<"~", "/", "a">>)},
     remote_host : {None, Some("b")},
     remote_port : {None, Some(2222)},
     remote_user : {None, Some("u")}]

\* the configuration's optional Ssh section
CfgSshSet ==
    [remote_password : {None, Some(""), Some("cfgpw")},
     remote_key_file : {None, Some(<<"~", "/", "c">>), Some(<<"/", "c">>)},
     remote_host : {None, Some("a")},
     remote_port : {None, Some(2200)},
     remote_user : {None, Some("root")}]

ConfigSet == [ssh : {None} \cup {Some(s) : s \in CfgSshSet}]

\* what dirs::home_dir can yield
HomeSet == {None, Some(<<"/", "h">>)}

\* the texts std::fs::read_to_string can yield when it does not fail
KeyTexts == {<<"K", "E", "Y">>, <<>>}

\* the local `password`
effective_password(a, c) ==
    IF c.ssh.tag = "Some"
    THEN IF c.ssh.val.remote_password.tag = "Some"
         THEN c.ssh.val.remote_password.val
         ELSE unwrap_or(a.remote_password, "")
    ELSE ""

raw_path_key_default(a, c) ==
    IF c.ssh.tag = "Some" /\ c.ssh.val.remote_key_file.tag = "Some"
    THEN Ok(c.ssh.val.remote_key_file.val)
    ELSE Ok(unwrap_or(a.remote_key_file, <<"~", "/", "a">>))

\* the local `raw_path_key`, or the error `?` returns
raw_path_key(a, c) ==
    IF c.ssh.tag = "Some"
    THEN IF c.ssh.val.remote_key_file.tag = "Some"
         THEN Ok(c.ssh.val.remote_key_file.val)
         ELSE IF a.remote_key_file.tag = "Some"
              THEN Ok(a.remote_key_file.val)
              ELSE Err(NoPrivateKeyMsg)
    ELSE IF a.remote_key_file.tag = "Some"
         THEN Ok(a.remote_key_file.val)
         ELSE Err(NoPrivateKeyMsg)

host(a, c) ==
    IF c.ssh.tag = "Some"
    THEN IF c.ssh.val.remote_host.tag = "Some"
         THEN c.ssh.val.remote_host.val
         ELSE unwrap_or(a.remote_host, "")
    ELSE unwrap_or(a.remote_host, "")

port_config_only(a, c) ==
    IF c.ssh.tag = "Some"
    THEN IF c.ssh.val.remote_port.tag = "Some"
         THEN c.ssh.val.remote_port.val
         ELSE unwrap_or(a.remote_port, DefaultPort)
    ELSE DefaultPort

port(a, c) ==
    IF c.ssh.tag = "Some"
    THEN IF c.ssh.val.remote_port.tag = "Some"
         THEN c.ssh.val.remote_port.val
         ELSE unwrap_or(a.remote_port, DefaultPort)
    ELSE unwrap_or(a.remote_port, DefaultPort)

username(a, c) ==
    IF c.ssh.tag = "Some"
    THEN IF c.ssh.val.remote_user.tag = "Some"
         THEN c.ssh.val.remote_user.val
         ELSE unwrap_or(a.remote_user, "")
    ELSE unwrap_or(a.remote_user, "")

with_password(pw) == [kind |-> "Password", password |-> pw]
with_key(key, passphrase) == [kind |-> "PrivateKey", key |-> key, passphrase |-> passphrase]

\* Client::connect((host, port), &username, method, ServerCheckMethod::NoCheck)
\* is issued and get_client suspends at the .await
Connect(m) ==
    /\ method' = m
    /\ connects' = Append(connects, [host |-> host(args, cfg), port |-> port(args, cfg),
                                     username |-> username(args, cfg), method |-> m,
                                     server_check |-> "NoCheck"])
    /\ handshake' = "pending"
    /\ pc' = "connecting"
    /\ UNCHANGED result

\* get_client up to the .await, the password is non-empty
GetClientPassword ==
    /\ pc = "start"
    /\ LET pw == effective_password(args, cfg)
       IN  /\ Len(pw) > 0
           /\ password' = Some(pw)
           /\ Connect(with_password(pw))
    /\ UNCHANGED <<args, cfg, home, fsReads>>

\* get_client, the password is empty and no key file is given: `?` returns
GetClientNoKey ==
    /\ pc = "start"
    /\ LET pw == effective_password(args, cfg)
           raw == raw_path_key(args, cfg)
       IN  /\ ~(Len(pw) > 0)
           /\ raw.tag = "Err"
           /\ password' = Some(pw)
           /\ result' = raw
    /\ pc' = "returned"
    /\ UNCHANGED <<args, cfg, home, method, fsReads, connects, handshake>>

\* get_client, the password is empty and the key file cannot be read: `?` returns
GetClientReadFail ==
    /\ pc = "start"
    /\ LET pw == effective_password(args, cfg)
           raw == raw_path_key(args, cfg)
       IN  /\ ~(Len(pw) > 0)
           /\ raw.tag = "Ok"
           /\ LET path_key == tilde_with_context(raw.val, home)
              IN  /\ fsReads' = Append(fsReads, [path |-> path_key, read |-> None])
                  /\ result' = Err(InvalidPrivateKeyMsg(path_key))
           /\ password' = Some(pw)
    /\ pc' = "returned"
    /\ UNCHANGED <<args, cfg, home, method, connects, handshake>>

\* get_client up to the .await, the password is empty and the key file is read
GetClientKey ==
    /\ pc = "start"
    /\ LET pw == effective_password(args, cfg)
           raw == raw_path_key(args, cfg)
       IN  /\ ~(Len(pw) > 0)
           /\ raw.tag = "Ok"
           /\ LET path_key == tilde_with_context(raw.val, home)
              IN  \E private_key \in KeyTexts :
                    /\ fsReads' = Append(fsReads, [path |-> path_key,
                                                    read |-> Some(private_key)])
                    /\ Connect(with_key(private_key, None))
           /\ password' = Some(pw)
    /\ UNCHANGED <<args, cfg, home>>

\* the handshake succeeds: .unwrap() yields the client, get_client returns Ok
HandshakeOk ==
    /\ pc = "connecting"
    /\ handshake' = "ok"
    /\ result' = Ok([host |-> connects[Len(connects)].host,
                     port |-> connects[Len(connects)].port,
                     username |-> connects[Len(connects)].username])
    /\ pc' = "returned"
    /\ UNCHANGED <<args, cfg, home, password, method, fsReads, connects>>

\* the handshake fails: .unwrap() on the Err panics, get_client never returns
HandshakeFail ==
    /\ pc = "connecting"
    /\ handshake' = "failed"
    /\ pc' = "panicked"
    /\ UNCHANGED <<args, cfg, home, password, method, fsReads, connects, result>>

IdleConn ==
    /\ args = [remote_password |-> None, remote_key_file |-> None, remote_host |-> None,
               remote_port |-> None, remote_user |-> None]
    /\ cfg = [ssh |-> None]
    /\ home = None
    /\ pc = "off"
    /\ password = None
    /\ method = None
    /\ fsReads = <<>>
    /\ connects = <<>>
    /\ handshake = "none"
    /\ result = None

IdleTilde == input = <<>> /\ home_dir = None /\ expanded = None
IdleRun == call = None /\ exec = None /\ ret = None
IdleStatus == success = <<>> /\ failure = <<>> /\ status = None /\ printed = None

Init ==
    /\ args \in ArgsSet
    /\ cfg \in ConfigSet
    /\ home \in HomeSet
    /\ pc = "start"
    /\ password = None
    /\ method = None
    /\ fsReads = <<>>
    /\ connects = <<>>
    /\ handshake = "none"
    /\ result = None
    /\ IdleTilde /\ IdleRun /\ IdleStatus

Next ==
    \/ GetClientPassword /\ UNCHANGED <<tildeVars, runVars, statusVars>>
    \/ GetClientNoKey /\ UNCHANGED <<tildeVars, runVars, statusVars>>
    \/ GetClientReadFail /\ UNCHANGED <<tildeVars, runVars, statusVars>>
    \/ GetClientKey /\ UNCHANGED <<tildeVars, runVars, statusVars>>
    \/ HandshakeOk /\ UNCHANGED <<tildeVars, runVars, statusVars>>
    \/ HandshakeFail /\ UNCHANGED <<tildeVars, runVars, statusVars>>

Spec == Init /\ [][Next]_vars

----------------------------------------------------------------------------
(* get_client: properties *)

\* the priority rule as the specification words it: the configuration's value
\* if the SSH section is present and sets the field, else the argument's value
\* if set, else the default
Resolved(field, default) ==
    IF cfg.ssh.tag = "Some" /\ cfg.ssh.val[field].tag = "Some"
    THEN cfg.ssh.val[field].val
    ELSE IF args[field].tag = "Some" THEN args[field].val ELSE default

KeyFileGiven ==
    \/ cfg.ssh.tag = "Some" /\ cfg.ssh.val.remote_key_file.tag = "Some"
    \/ args.remote_key_file.tag = "Some"

\* C1: once get_client has determined the password, it is the configuration's
\* remote_password if the SSH section is present and sets one, otherwise the
\* argument's remote_password if set, otherwise the empty string; and a
\* non-empty one selects password authentication with it.
C1_EffectivePassword ==
    password.tag = "Some" =>
        /\ password.val = Resolved("remote_password", "")
        /\ Resolved("remote_password", "") # "" =>
               method = with_password(Resolved("remote_password", ""))

\* C2: whenever the configuration's or the argument's remote_password is a
\* non-empty string, get_client chooses password authentication and neither
\* resolves nor reads a private-key path.
C2_PasswordAlwaysWins ==
    ( /\ password.tag = "Some"
      /\ \/ unwrap_or(args.remote_password, "") # ""
         \/ cfg.ssh.tag = "Some" /\ unwrap_or(cfg.ssh.val.remote_password, "") # "" )
    => /\ method # None
       /\ method.kind = "Password"
       /\ fsReads = <<>>
       /\ result # Err(NoPrivateKeyMsg)

\* C3: a failed handshake is returned from get_client as an error value; the
\* process does not panic.
C3_HandshakeFailureIsReturned ==
    handshake = "failed" => pc = "returned" /\ result.tag = "Err"

\* C4: the one connection get_client attempts goes to the host, port and
\* username that are each, independently, the configuration's value if the SSH
\* section is present and sets the field, else the argument's value if set, else
\* the default ("" for host and username, 22 for the port).
C4_TargetResolvedPerField ==
    /\ Len(connects) <= 1
    /\ \A i \in 1..Len(connects) :
         /\ connects[i].host = Resolved("remote_host", "")
         /\ connects[i].port = Resolved("remote_port", 22)
         /\ connects[i].username = Resolved("remote_user", "")

\* configuration {host: "a"} with arguments {host: "b", port: 2222} connects
\* to "a" on port 2222
C4_Witness ==
    /\ cfg.ssh.tag = "Some"
    /\ cfg.ssh.val.remote_host = Some("a")
    /\ cfg.ssh.val.remote_port = None
    /\ args.remote_host = Some("b")
    /\ args.remote_port = Some(2222)
    /\ Len(connects) = 1
    /\ connects[1].host = "a"
    /\ connects[1].port = 2222

\* C5: with an empty password and no key file from either source, get_client
\* has returned the error "no private key file provided" without reading any
\* file and without attempting a connection; and a key file that cannot be read
\* makes it return an error that names the tilde-expanded path it tried to
\* read, again without attempting a connection.
C5_KeyErrorsBeforeHandshake ==
    /\ (password = Some("") /\ ~KeyFileGiven) =>
          /\ pc = "returned"
          /\ result = Err(NoPrivateKeyMsg)
          /\ fsReads = <<>>
          /\ connects = <<>>
          /\ handshake = "none"
    /\ \A i \in 1..Len(fsReads) :
          fsReads[i].read = None =>
             /\ fsReads[i].path =
                    tilde_with_context(Resolved("remote_key_file", <<>>), home)
             /\ pc = "returned"
             /\ result.tag = "Err"
             /\ \E k \in 1..Len(result.msg) :
                    SubSeq(result.msg, k, Len(result.msg)) = fsReads[i].path
             /\ connects = <<>>
             /\ handshake = "none"

C5_Witness ==
    /\ password = Some("")
    /\ ~KeyFileGiven
    /\ result = Err(NoPrivateKeyMsg)

----------------------------------------------------------------------------
(* tilde_with_context on its own, with an injected home_dir *)

PathChars == {"~", "/", "b"}

InitTilde ==
    /\ input \in SeqsUpTo(PathChars, MaxLen)
    /\ home_dir \in {None, Some(<<"/", "h">>), Some(<<>>)}
    /\ expanded = None
    /\ IdleConn /\ IdleRun /\ IdleStatus

TildeWithContext ==
    /\ expanded = None
    /\ expanded' = Some(tilde_with_context(input, home_dir))
    /\ UNCHANGED <<input, home_dir>>

NextTilde == TildeWithContext /\ UNCHANGED <<connVars, runVars, statusVars>>

SpecTilde == InitTilde /\ [][NextTilde]_vars

\* C6: an input not starting with '~' is returned as it is; an input that is
\* "~" or starts with "~/" becomes the home directory followed by everything
\* after the '~' when the resolver yields one, and is returned as it is when
\* the resolver yields nothing; an input starting with '~' followed by any other
\* character is returned as it is, whatever the resolver yields.
C6_TildeExpansion ==
    expanded.tag = "Some" =>
        LET out == expanded.val
            tilde == input # <<>> /\ input[1] = "~"
            own == tilde /\ (Len(input) = 1 \/ input[2] = "/")
        IN  /\ ~tilde => out = input
            /\ (own /\ home_dir.tag = "Some") => out = home_dir.val \o Tail(input)
            /\ (own /\ home_dir.tag = "None") => out = input
            /\ (tilde /\ ~own) => out = input

C6_Witness ==
    /\ input = <<"~", "/", "b">>
    /\ home_dir = Some(<<"/", "h">>)
    /\ expanded = Some(<<"/", "h", "/", "b">>)

----------------------------------------------------------------------------
(* prelude.rs: run, silent and the probes *)

ShellPrefix == <<"b", "a", "s", "h", ":", " ", "l", "i", "n", "e", " ", "1", ":", " ">>
NotInstalledMsg == <<"n", "o", "t", " ", "i", "n", "s", "t", "a", "l", "l", "e", "d">>
Ubuntu == <<"U", "b", "u", "n", "t", "u">>
Debian == <<"D", "e", "b", "i", "a", "n">>

\* what client.execute(cmd).await yields: an error of the transport, or a
\* CommandExecutedResult
Fragments ==
    {<<" ">>, <<"\n">>, <<"f", "o", "o">>, ShellPrefix,
     <<"b", "a", "s", "h", ":", " ", "l", "i", "n", "e", " ">>, <<"1", ":", " ">>,
     Ubuntu, Debian}

Outputs == {Flatten(fs) : fs \in SeqsUpTo(Fragments, MaxFrags)}

ExitStatuses == {0, 1, 127}

TransportErrors == {<<"s", "s", "h">>, <<"i", "o">>}

Executions ==
    {Err(e) : e \in TransportErrors}
        \cup {Ok([exit_status |-> x, output |-> o]) : x \in ExitStatuses, o \in Outputs}

run_ignoring_exit_status(executed) == executed

\* run, given what client.execute yielded
run(executed) ==
    IF executed.tag = "Err" THEN executed
    ELSE IF executed.val.exit_status = 0
         THEN Ok(executed.val)
         ELSE Err(executed.val.output)

\* silent, given what client.execute yielded
silent(executed) ==
    IF executed.tag = "Err" THEN executed ELSE Ok(executed.val)

osinfo(executed) ==
    LET r == silent(executed)
    IN  IF r.tag = "Ok"
        THEN IF contains(r.val.output, Ubuntu) THEN "Ubuntu"
             ELSE IF contains(r.val.output, Debian) THEN "Debian"
             ELSE "Unsupported"
        ELSE "Unsupported"

which_keeping_prefix(executed) ==
    LET r == silent(executed)
    IN  IF r.tag = "Ok"
        THEN IF r.val.exit_status = 0
             THEN Ok(trim(r.val.output))
             ELSE Err(trim(r.val.output))
        ELSE Err(NotInstalledMsg)

which(executed) ==
    LET r == silent(executed)
    IN  IF r.tag = "Ok"
        THEN IF r.val.exit_status = 0
             THEN Ok(trim(r.val.output))
             ELSE Err(replace(trim(r.val.output), ShellPrefix, <<>>))
        ELSE Err(NotInstalledMsg)

some_output_untrimmed(executed) ==
    LET r == silent(executed)
    IN  IF r.tag = "Ok"
        THEN IF r.val.exit_status = 0 THEN r.val.output # <<>> ELSE FALSE
        ELSE FALSE

some_output(executed) ==
    LET r == silent(executed)
    IN  IF r.tag = "Ok"
        THEN IF r.val.exit_status = 0 THEN ~(trim(r.val.output) = <<>>) ELSE FALSE
        ELSE FALSE

file_exists(executed) ==
    LET r == silent(executed)
    IN  IF r.tag = "Ok" THEN r.val.exit_status = 0 ELSE FALSE

Cmds == {"which foo"}
Filenames == {"/etc/passwd"}

\* one call: the command is sent, the remote answers with exec, the function
\* returns
Returns(op, cmd, value) ==
    /\ call = None
    /\ call' = Some([op |-> op, cmd |-> cmd])
    /\ ret' = Some(value)
    /\ UNCHANGED exec

Run == \E cmd \in Cmds : Returns("run", cmd, run(exec))
Silent == \E cmd \in Cmds : Returns("silent", cmd, silent(exec))
Osinfo == Returns("osinfo", "uname -a", osinfo(exec))
Which == \E cmd \in Cmds : Returns("which", cmd, which(exec))
SomeOutput == \E cmd \in Cmds : Returns("some_output", cmd, some_output(exec))
FileExists == \E filename \in Filenames :
                 Returns("file_exists", "ls -1 " \o filename, file_exists(exec))

InitRunner ==
    /\ call = None
    /\ exec \in Executions
    /\ ret = None
    /\ IdleConn /\ IdleTilde /\ IdleStatus

NextRunner ==
    \/ Run /\ UNCHANGED <<connVars, tildeVars, statusVars>>
    \/ Silent /\ UNCHANGED <<connVars, tildeVars, statusVars>>
    \/ Osinfo /\ UNCHANGED <<connVars, tildeVars, statusVars>>
    \/ Which /\ UNCHANGED <<connVars, tildeVars, statusVars>>
    \/ SomeOutput /\ UNCHANGED <<connVars, tildeVars, statusVars>>
    \/ FileExists /\ UNCHANGED <<connVars, tildeVars, statusVars>>

SpecRunner == InitRunner /\ [][NextRunner]_vars

Called(op) == call.tag = "Some" /\ call.val.op = op

\* C7: when the execution yields an outcome, silent returns it unchanged
\* whatever the exit code, and run returns it if the exit code is 0 and
\* otherwise fails with exactly the captured output as its message; when the
\* execution itself fails, run and silent both fail.
C7_RunAndSilent ==
    /\ Called("silent") =>
          /\ exec.tag = "Ok" => ret.val = Ok(exec.val)
          /\ exec.tag = "Err" => ret.val.tag = "Err"
    /\ Called("run") =>
          /\ (exec.tag = "Ok" /\ exec.val.exit_status = 0) => ret.val = Ok(exec.val)
          /\ (exec.tag = "Ok" /\ exec.val.exit_status # 0) =>
                 ret.val = Err(exec.val.output)
          /\ exec.tag = "Err" => ret.val.tag = "Err"

C7_Witness ==
    /\ Called("run")
    /\ exec.tag = "Ok"
    /\ exec.val.exit_status = 1
    /\ exec.val.output = <<"f", "o", "o", "\n">>
    /\ ret.val = Err(<<"f", "o", "o", "\n">>)

\* C9: which succeeds with the trimmed output when the command exits with 0;
\* when it exits with another code, which fails with the trimmed output from
\* which every "bash: line 1: " has been removed (so an output that only
\* starts with it fails with the rest, and one that has none fails with the
\* trimmed output); when the execution itself fails, which fails with
\* "not installed"; which succeeds only on exit code 0.
C9_Which ==
    Called("which") =>
        /\ (exec.tag = "Ok" /\ exec.val.exit_status = 0) =>
               ret.val = Ok(trim(exec.val.output))
        /\ (exec.tag = "Ok" /\ exec.val.exit_status # 0) =>
               LET t == trim(exec.val.output)
                   rest == SubSeq(t, Len(ShellPrefix) + 1, Len(t))
               IN  /\ ret.val = Err(replace(t, ShellPrefix, <<>>))
                   /\ (starts_with(t, ShellPrefix) /\ ~contains(rest, ShellPrefix)) =>
                          ret.val = Err(rest)
                   /\ ~contains(t, ShellPrefix) => ret.val = Err(t)
        /\ exec.tag = "Err" => ret.val = Err(NotInstalledMsg)
        /\ ret.val.tag = "Ok" => (exec.tag = "Ok" /\ exec.val.exit_status = 0)

C9_Witness ==
    /\ Called("which")
    /\ exec = Ok([exit_status |-> 127, output |-> ShellPrefix \o <<"f", "o", "o">>])
    /\ ret.val = Err(<<"f", "o", "o">>)

\* C10: some_output, file_exists and osinfo return plain values: some_output
\* is true exactly when the command executes with exit code 0 and its trimmed
\* output is non-empty, file_exists exactly when the listing executes with exit
\* code 0; osinfo is Ubuntu if the output contains "Ubuntu", else Debian if it
\* contains "Debian", else Unsupported; when the execution itself fails they
\* return false, false and Unsupported.
C10_Probes ==
    /\ Called("some_output") =>
          /\ ret.val \in BOOLEAN
          /\ ret.val <=> /\ exec.tag = "Ok"
                         /\ exec.val.exit_status = 0
                         /\ \E i \in 1..Len(exec.val.output) :
                                ~is_whitespace(exec.val.output[i])
    /\ Called("file_exists") =>
          /\ ret.val \in BOOLEAN
          /\ ret.val <=> (exec.tag = "Ok" /\ exec.val.exit_status = 0)
    /\ Called("osinfo") =>
          /\ ret.val \in {"Ubuntu", "Debian", "Unsupported"}
          /\ exec.tag = "Err" => ret.val = "Unsupported"
          /\ exec.tag = "Ok" =>
                LET u == contains(exec.val.output, Ubuntu)
                    d == contains(exec.val.output, Debian)
                IN  /\ u => ret.val = "Ubuntu"
                    /\ (~u /\ d) => ret.val = "Debian"
                    /\ (~u /\ ~d) => ret.val = "Unsupported"

C10_Witness ==
    /\ Called("some_output")
    /\ exec = Ok([exit_status |-> 0, output |-> <<" ", "\n">>])
    /\ ret.val = FALSE

----------------------------------------------------------------------------
(* prelude.rs: Status *)

Labels == {"x", "y"}

Status_new_by_success(s, f) ==
    IF s = <<>>
    THEN [variant |-> "Installed", success |-> s]
    ELSE [variant |-> "NotInstalled", success |-> s, fail |-> f]

\* Status::new
Status_new(s, f) ==
    IF f = <<>>
    THEN [variant |-> "Installed", success |-> s]
    ELSE [variant |-> "NotInstalled", success |-> s, fail |-> f]

\* impl Debug for Status: the struct's name and the fields it shows
Status_fmt(st) ==
    IF st.variant = "Installed"
    THEN [name |-> "Installed",
          fields |-> IF Len(st.success) > 0
                     THEN <<[name |-> "success", value |-> st.success]>> ELSE <<>>]
    ELSE [name |-> "NotInstalled",
          fields |-> (IF Len(st.success) > 0
                      THEN <<[name |-> "success", value |-> st.success]>> ELSE <<>>)
                     \o (IF Len(st.fail) > 0
                         THEN <<[name |-> "fail", value |-> st.fail]>> ELSE <<>>)]

\* Status::print: the line "+ {alias}: {out}" and its colour
Status_print(st, alias) ==
    [prefix |-> "+ ", alias |-> alias, out |-> Status_fmt(st),
     colour |-> IF st.variant = "Installed" THEN "green" ELSE "red"]

Aliases == {"docker"}

InitStatus ==
    /\ success \in SeqsUpTo(Labels, MaxList)
    /\ failure \in SeqsUpTo(Labels, MaxList)
    /\ status = None
    /\ printed = None
    /\ IdleConn /\ IdleTilde /\ IdleRun

StatusNew ==
    /\ status = None
    /\ status' = Some(Status_new(success, failure))
    /\ UNCHANGED <<success, failure, printed>>

StatusPrint ==
    /\ status.tag = "Some"
    /\ printed = None
    /\ \E alias \in Aliases : printed' = Some(Status_print(status.val, alias))
    /\ UNCHANGED <<success, failure, status>>

NextStatus ==
    \/ StatusNew /\ UNCHANGED <<connVars, tildeVars, runVars>>
    \/ StatusPrint /\ UNCHANGED <<connVars, tildeVars, runVars>>

SpecStatus == InitStatus /\ [][NextStatus]_vars

FieldNames(fields) == [i \in 1..Len(fields) |-> fields[i].name]

\* C8: Status::new yields Installed exactly when the fail list is empty and
\* NotInstalled otherwise, whatever the success list, and carries both lists
\* unchanged; so a NotInstalled built by new has a non-empty fail list, its
\* rendering shows the fail field, and the rendering leaves out exactly the
\* empty lists.
C8_StatusVariant ==
    /\ status.tag = "Some" =>
          /\ status.val.variant = "Installed" <=> failure = <<>>
          /\ status.val.variant = "NotInstalled" <=> failure # <<>>
          /\ status.val.success = success
          /\ status.val.variant = "NotInstalled" =>
                 status.val.fail = failure /\ status.val.fail # <<>>
    /\ printed.tag = "Some" =>
          LET fields == printed.val.out.fields
          IN  /\ printed.val.out.name = status.val.variant
              /\ status.val.variant = "NotInstalled" =>
                     \E i \in 1..Len(fields) : fields[i] = [name |-> "fail", value |-> failure]
              /\ FieldNames(fields) =
                     (IF success # <<>> THEN <<"success">> ELSE <<>>)
                        \o (IF failure # <<>> THEN <<"fail">> ELSE <<>>)
              /\ \A i \in 1..Len(fields) :
                     fields[i].value = IF fields[i].name = "success" THEN success ELSE failure

C8_Witness ==
    /\ success = <<>>
    /\ failure = <<"y">>
    /\ status = Some([variant |-> "NotInstalled", success |-> <<>>, fail |-> <<"y">>])
    /\ printed.tag = "Some"
    /\ printed.val.out.fields = <<[name |-> "fail", value |-> <<"y">>]>>

====
